---- MODULE Spec2Model ----
(***************************************************************************)
(* Minitopic: the fetch / cache / search / mark pipeline of the Miniflux   *)
(* keyword search tool (src/minitopic/minitopic.py), its time-bounded      *)
(* cache (src/utils/simple_cache.py) and its keyword dictionary            *)
(* (src/minitopic/utils/wordset.py).                                       *)
(*                                                                         *)
(* Strings are sequences of one-character strings.  Offsets of match spans *)
(* are 0-based, as in Python.  Time is counted in ticks of half a day.     *)
(***************************************************************************)
EXTENDS Integers, Sequences, FiniteSets, TLC

VARIABLES
    \* ---- the pipeline (Spec): the world
    now,            \* wall clock, in ticks
    cacheFile,      \* the pickle file at CACHE_PATH
    dictFile,       \* the text file at USER_DICT_PATH
    remote,         \* the entries held by the Miniflux server
    \* ---- the pipeline: one invocation of cli
    pc,             \* where the invocation is
    runs,           \* invocations started so far
    importTime,     \* when simple_cache was imported by this invocation
    keywords_and, keywords_or, keywords_not, force_fetch, dryrun,
    entries,        \* cli's `entries`: None or a list
    fetch_count,    \* fetch_entries' `fetch_count`
    fetch_acc,      \* fetch_entries' own `entries`, the batches so far
    results,        \* cli's `results`, as positions in `entries`
    ids,            \* cli's `ids`
    \* ---- the pipeline: what an observer of the invocation has seen
    cache0,         \* the cache file when the invocation started
    remote0,        \* the server's entries when the invocation started
    searched,       \* `entries` as the search loop found it: None or a list
    atSearch,       \* files and remote statuses when the search loop ended
    loadTime,       \* the clock when the cache was loaded
    presented,      \* files and remote statuses when the table was printed
    answer,         \* the user's answer to the prompt
    getCalls,       \* offsets of the get_entries calls made
    updateCalls,    \* arguments of the update_entries calls made
    cacheLog,       \* payloads written to the cache file
    dictAppends,    \* lines appended to the dictionary
    reported,       \* ids printed by "Dryrun: mark ..." / "Marking ..."
    appendedBefore, \* lines appended by earlier invocations
    markedBefore,   \* ids of the entries marked by earlier invocations
    keywordsBefore, \* the keyword lists of the earlier marking invocations
    fetchedAt,      \* the clock when the list in the cache file was fetched
    \* ---- the matcher called on its own (SpecMatch)
    m_string, m_and, m_or, m_not, m_out, m_pc,
    m_title,        \* the title as cli formats it for the table, in tokens
    \* ---- fetch_entries called on its own (SpecFetch)
    f_source, f_batch, f_count, f_total, f_entries, f_calls, f_pc,
    \* ---- the keyword dictionary used on its own (SpecDict)
    d_file,         \* the text file
    d_lines,        \* the object's `lines`
    d_pc,           \* "closed": no object; "open": an object was constructed
    d_start,        \* the file's text before anything was done
    d_last,         \* the last append: its line and the text before it
    d_count,        \* appends made so far
    \* ---- the cache object used on its own (SpecCache)
    c_now,          \* wall clock, in ticks
    c_import,       \* when simple_cache was imported by the process
    c_file,         \* the pickle file
    c_obj,          \* the SimpleCache object: None before it is constructed
    c_pc,           \* "run", or "write" inside write()
    c_op,           \* the last call made on the object, and what it returned
    c_stack,        \* the frames of read() and write() that have not returned
    c_dumps,        \* records dumped to the file since the call was made
    \* ---- two invocations at the same time (SpecRace)
    procs,          \* per invocation: position and locals of cli
    lastWriter      \* the invocation that wrote the cache file last

m_vars == <<m_string, m_and, m_or, m_not, m_out, m_pc, m_title>>
f_vars == <<f_source, f_batch, f_count, f_total, f_entries, f_calls, f_pc>>
w_vars == <<now, cacheFile, dictFile, remote>>
r_vars == <<pc, runs, importTime, keywords_and, keywords_or, keywords_not,
            force_fetch, dryrun, entries, fetch_count, fetch_acc, results, ids>>
h_vars == <<cache0, remote0, searched, atSearch, loadTime, presented, answer, getCalls,
            updateCalls, cacheLog, dictAppends, reported, appendedBefore,
            markedBefore, keywordsBefore, fetchedAt>>
p_vars == <<w_vars, r_vars, h_vars>>
d_vars == <<d_file, d_lines, d_pc, d_start, d_last, d_count>>
\* The parts used on their own, besides the matcher and fetch_entries.
c_vars == <<c_now, c_import, c_file, c_obj, c_pc, c_op, c_stack, c_dumps>>
x_vars == <<procs, lastWriter>>
o_vars == <<d_vars, c_vars, x_vars>>
vars == <<p_vars, m_vars, f_vars, o_vars>>

\* Python values that may be None carry their type: None, or a list.
None == [type |-> "NoneType"]
PyList(items) == [type |-> "list", items |-> items]
IsNone(value) == value.type = "NoneType"

\* ------------------------------------------------------------------ bounds
\* Longest generated text handed to the matcher.
MaxLen == 2
\* Longest pattern list handed to the matcher.
MaxPats == 2
\* Most entries the remote source holds when fetch_entries is called on its
\* own (besides the 250 of the pagination scenario).
MaxSource == 5
\* Largest batch size tried (besides the 100 of the pagination scenario).
MaxBatch == 3
\* Invocations of cli in one behaviour of the pipeline (Spec).
MaxRuns == 1
\* Invocations of cli in one behaviour of a series of sessions (SpecSessions).
MaxSessions == 2
\* Last tick of the clock.
MaxTime == 4
\* Deepest nesting of read() and write() frames followed.
MaxDepth == 4
\* Appends made to the dictionary used on its own (SpecDict).
MaxAppends == 3
\* --batch-size of the pipeline's invocations, scaled to the model's remote.
PageSize == 2

\* ----------------------------------------------------------------- strings
UpperCase == <<"A","B","C","D","E","F","G","H","I","J","K","L","M",
               "N","O","P","Q","R","S","T","U","V","W","X","Y","Z">>
LowerCase == <<"a","b","c","d","e","f","g","h","i","j","k","l","m",
               "n","o","p","q","r","s","t","u","v","w","x","y","z">>

\* str.lower() on one character.
UpperSet == {UpperCase[i] : i \in 1..26}
LowerOf == [c \in UpperSet |-> LowerCase[CHOOSE i \in 1..26 : UpperCase[i] = c]]
LowerChar(c) == IF c \in UpperSet THEN LowerOf[c] ELSE c

\* str.lower().
Lower(s) == [i \in 1..Len(s) |-> LowerChar(s[i])]

\* Sequences over S of length at most n.
SeqUpTo(S, n) == UNION {[1..k -> S] : k \in 0..n}

\* ----------------------------------------------------------------- matcher
\* Does the pattern, read as a literal, match string at 0-based offset i
\* under re.IGNORECASE?
MatchesAt(pattern, string, i) ==
    /\ i + Len(pattern) <= Len(string)
    /\ \A j \in 1..Len(pattern) :
         LowerChar(string[i + j]) = LowerChar(pattern[j])

\* re.search(pattern, string, re.IGNORECASE): the leftmost match as a span
\* (match.start(), match.end()), or None.
re_search(pattern, string) ==
    IF \E i \in 0..Len(string) : MatchesAt(pattern, string, i)
    THEN LET i == CHOOSE k \in 0..Len(string) :
                    /\ MatchesAt(pattern, string, k)
                    /\ \A l \in 0..(k - 1) : ~MatchesAt(pattern, string, l)
         IN  [type |-> "Match", start |-> i, end |-> i + Len(pattern)]
    ELSE None

\* re.search raises re.error for a pattern that does not compile: here, one
\* with a parenthesis that is never closed.
IsMalformed(pattern) == \E i \in 1..Len(pattern) : pattern[i] = "("

\* Python's all() and any() over a list of re.Match | None (a Match object
\* is always truthy).
all(matches) == \A i \in 1..Len(matches) : ~IsNone(matches[i])
any(matches) == \E i \in 1..Len(matches) : ~IsNone(matches[i])

\* `patterns or []`
OrEmpty(patterns) == IF IsNone(patterns) THEN <<>> ELSE patterns.items

\* A matcher that drops the empty-list case of the OR group.
and_or_not_match_NoVacuousOr(string, patterns_and, patterns_or, patterns_not) ==
    LET pa == OrEmpty(patterns_and)
        po == OrEmpty(patterns_or)
        pn == OrEmpty(patterns_not)
        matches_and == [i \in 1..Len(pa) |-> re_search(pa[i], string)]
        matches_or  == [i \in 1..Len(po) |-> re_search(po[i], string)]
        matches_not == [i \in 1..Len(pn) |-> re_search(pn[i], string)]
        is_match_and == Len(matches_and) = 0 \/ all(matches_and)
        is_match_or  == any(matches_or)
        is_match_not == Len(matches_not) = 0 \/ ~any(matches_not)
    IN  [is_match    |-> is_match_and /\ is_match_or /\ is_match_not,
         matches_and |-> matches_and,
         matches_or  |-> matches_or,
         matches_not |-> matches_not]

and_or_not_match(string, patterns_and, patterns_or, patterns_not) ==
    LET pa == OrEmpty(patterns_and)
        po == OrEmpty(patterns_or)
        pn == OrEmpty(patterns_not)
        matches_and == [i \in 1..Len(pa) |-> re_search(pa[i], string)]
        matches_or  == [i \in 1..Len(po) |-> re_search(po[i], string)]
        matches_not == [i \in 1..Len(pn) |-> re_search(pn[i], string)]
        is_match_and == Len(matches_and) = 0 \/ all(matches_and)
        is_match_or  == Len(matches_or) = 0 \/ any(matches_or)
        is_match_not == Len(matches_not) = 0 \/ ~any(matches_not)
    IN  [is_match    |-> is_match_and /\ is_match_or /\ is_match_not,
         matches_and |-> matches_and,
         matches_or  |-> matches_or,
         matches_not |-> matches_not]

\* ------------------------------------------------------------ highlighting
\* `matches_and_start` and the like: match.start() or match.end() of the
\* matches that are not None.  Only membership in them is tested.
Offsets(matches, bound) ==
    {matches[i][bound] : i \in {j \in 1..Len(matches) : ~IsNone(matches[j])}}

\* `match idx:` with its four guarded cases: the first case whose guard
\* holds adds its marker, the others are not looked at.
MarkerAt(idx, and_start, and_end, or_start, or_end) ==
    IF idx \in and_start THEN <<"[keyword_and]">>
    ELSE IF idx \in and_end THEN <<"[/keyword_and]">>
    ELSE IF idx \in or_start THEN <<"[keyword_or]">>
    ELSE IF idx \in or_end THEN <<"[/keyword_or]">>
    ELSE <<>>

\* `formated_title` after the first n characters of the title: for each
\* index, the marker of that index and then the character.
RECURSIVE formated_title(_, _, _, _, _, _)
formated_title(title, n, and_start, and_end, or_start, or_end) ==
    IF n = 0 THEN <<>>
    ELSE formated_title(title, n - 1, and_start, and_end, or_start, or_end)
         \o MarkerAt(n - 1, and_start, and_end, or_start, or_end)
         \o <<title[n]>>

\* --------------------------------------------------------- text of a file
IsSpace(c) == c \in {" ", "\n"}

\* str.strip().
RECURSIVE LStrip(_)
LStrip(s) == IF s # <<>> /\ IsSpace(Head(s)) THEN LStrip(Tail(s)) ELSE s
RECURSIVE RStrip(_)
RStrip(s) ==
    IF s # <<>> /\ IsSpace(s[Len(s)]) THEN RStrip(SubSeq(s, 1, Len(s) - 1))
    ELSE s
Strip(s) == RStrip(LStrip(s))

\* str.splitlines(), with "\n" the only line break.
RECURSIVE SplitLines(_)
SplitLines(s) ==
    IF s = <<>> THEN <<>>
    ELSE IF \E i \in 1..Len(s) : s[i] = "\n"
         THEN LET i == CHOOSE k \in 1..Len(s) :
                         s[k] = "\n" /\ \A l \in 1..(k - 1) : s[l] # "\n"
              IN  <<SubSeq(s, 1, i - 1)>> \o SplitLines(SubSeq(s, i + 1, Len(s)))
         ELSE <<s>>

\* "\n".join(lines).
RECURSIVE Join(_)
Join(lines) ==
    IF lines = <<>> THEN <<>>
    ELSE IF Len(lines) = 1 THEN lines[1]
         ELSE lines[1] \o <<"\n">> \o Join(Tail(lines))

\* ------------------------------------------------------- SimpleSetInFile
\* The dictionary file: missing, or a text.
NoFile == [exists |-> FALSE]
TextFile(text) == [exists |-> TRUE, text |-> text]

\* SimpleSetInFile.read: the `lines` of a file that exists.
SimpleSetInFile_read(text) ==
    LET raw == SplitLines(Strip(text))
    IN  [i \in 1..Len(raw) |-> Strip(raw[i])]

\* An append that never adds anything.
SimpleSetInFile_append_Never(set, line) == set

\* SimpleSetInFile.append followed, when the line is new, by write.  `set`
\* is the object (its `lines`) together with the file's text and the lines
\* this invocation has added.
SimpleSetInFile_append(set, line) ==
    LET lower_lines == [i \in 1..Len(set.lines) |-> Lower(set.lines[i])]
    IN  IF \E i \in 1..Len(lower_lines) : lower_lines[i] = Lower(line)
        THEN set
        ELSE [lines    |-> Append(set.lines, line),
              text     |-> Join(Append(set.lines, line)),
              appended |-> Append(set.appended, line)]

\* `for word in words: user_dict.append(word)`
RECURSIVE AppendWords(_, _)
AppendWords(set, words) ==
    IF words = <<>> THEN set
    ELSE AppendWords(SimpleSetInFile_append(set, Head(words)), Tail(words))

\* ------------------------------------------------------------ SimpleCache
\* The cache file: missing, not a pickled {"cached_time", "data"} record
\* with a datetime in it, or such a record.
NoCache == [kind |-> "absent"]
CorruptCache == [kind |-> "corrupt"]
CacheRecord(cached_time, data) ==
    [kind |-> "record", cached_time |-> cached_time, data |-> data]

\* config.CACHE_LIFE = timedelta(days=1), in ticks.
CACHE_LIFE == 2
TimeDelta(ticks) == [type |-> "timedelta", ticks |-> ticks]

\* A read that recovers in memory only, without writing the empty record.
SimpleCache_read_NoPersist(file, time) ==
    IF file.kind = "record"
    THEN [file |-> file, payload |-> file.data,
          cached_time |-> file.cached_time, writes |-> <<>>]
    ELSE [file |-> file, payload |-> None,
          cached_time |-> time, writes |-> <<>>]

\* SimpleCache.read at clock `time`: the file afterwards, the object's
\* payload and cached_time, and the payloads written on the way.  A missing
\* or corrupt file is replaced by write(None), which reads the new record.
SimpleCache_read(file, time) ==
    IF file.kind = "record"
    THEN [file |-> file, payload |-> file.data,
          cached_time |-> file.cached_time, writes |-> <<>>]
    ELSE [file |-> CacheRecord(time, None), payload |-> None,
          cached_time |-> time, writes |-> <<None>>]

\* A write that merges: it keeps the 'read' marks of the list in the file.
SimpleCache_write_Merge(file, payload, time) ==
    LET merged ==
          IF /\ file.kind = "record" /\ file.data.type = "list"
             /\ payload.type = "list"
             /\ Len(file.data.items) = Len(payload.items)
          THEN PyList([i \in 1..Len(payload.items) |->
                         IF file.data.items[i].status = "read"
                         THEN [payload.items[i] EXCEPT !.status = "read"]
                         ELSE payload.items[i]])
          ELSE payload
    IN  [file |-> CacheRecord(time, merged), payload |-> merged,
         cached_time |-> time, writes |-> <<merged>>]

\* A write that keeps the object's old time stamp instead of reading the
\* record back.
SimpleCache_write_NoReread(file, payload, time) ==
    [file |-> CacheRecord(time, payload), payload |-> payload,
     cached_time |-> IF file.kind = "record" THEN file.cached_time ELSE time,
     writes |-> <<payload>>]

\* SimpleCache.write(payload) at clock `time`: dump, then read.
SimpleCache_write(file, payload, time) ==
    LET after == SimpleCache_read(CacheRecord(time, payload), time)
    IN  [after EXCEPT !.writes = <<payload>> \o after.writes]

\* An expiry test that takes a missing lifetime for a zero-length one.
is_expired_NoneIsZero(cached_time, lifetime, time) ==
    IF IsNone(lifetime) THEN cached_time < time
    ELSE IF lifetime.ticks = 0 THEN FALSE
    ELSE cached_time < time - lifetime.ticks

\* SimpleCache.is_expired(time).
is_expired(cached_time, lifetime, time) ==
    IF IsNone(lifetime) \/ lifetime.ticks = 0
    THEN FALSE
    ELSE cached_time < time - lifetime.ticks

\* ------------------------------------------- the matcher called on its own
QuarterlyReport ==
    <<"Q","u","a","r","t","e","r","l","y"," ","R","e","p","o","r","t">>
WeeklyDigest == <<"W","e","e","k","l","y"," ","D","i","g","e","s","t">>
kw_report == <<"r","e","p","o","r","t">>
kw_weekly == <<"w","e","e","k","l","y">>

MatchTexts == SeqUpTo({"a"}, MaxLen) \cup {QuarterlyReport, WeeklyDigest}
MatchPatterns == {<<"A">>, kw_report, kw_weekly}
\* A pattern list, or None for an omitted one.
MatchLists == {PyList(l) : l \in SeqUpTo(MatchPatterns, MaxPats)} \cup {None}

MatchIdle ==
    /\ m_string = <<>> /\ m_and = None /\ m_or = None /\ m_not = None
    /\ m_out = None /\ m_pc = "off" /\ m_title = <<>>

FetchIdle ==
    /\ f_source = <<>> /\ f_batch = 1 /\ f_count = 0 /\ f_total = 0
    /\ f_entries = <<>> /\ f_calls = <<>> /\ f_pc = "off"

DictIdle ==
    /\ d_file = <<>> /\ d_lines = <<>> /\ d_pc = "off" /\ d_start = <<>>
    /\ d_last = None /\ d_count = 0

CacheIdle ==
    /\ c_now = 0 /\ c_import = 0 /\ c_file = [kind |-> "absent"]
    /\ c_obj = None /\ c_pc = "off" /\ c_op = None
    /\ c_stack = <<>> /\ c_dumps = 0

RaceIdle == procs = <<>> /\ lastWriter = 0

\* No other part is used on its own.
OthersIdle == DictIdle /\ CacheIdle /\ RaceIdle

\* No invocation of the single-invocation pipeline is under way.
InvocationIdle ==
    /\ pc = "off" /\ runs = 0 /\ importTime = 0
    /\ keywords_and = <<>> /\ keywords_or = <<>> /\ keywords_not = <<>>
    /\ force_fetch = FALSE /\ dryrun = FALSE
    /\ entries = None /\ fetch_count = 0 /\ fetch_acc = <<>>
    /\ results = <<>> /\ ids = <<>>
    /\ cache0 = [kind |-> "absent"] /\ remote0 = <<>>
    /\ loadTime = 0 /\ presented = None
    /\ answer = "none" /\ getCalls = <<>> /\ updateCalls = <<>>
    /\ cacheLog = <<>> /\ dictAppends = <<>> /\ reported = None
    /\ appendedBefore = {} /\ markedBefore = {} /\ searched = None
    /\ atSearch = None
    /\ keywordsBefore = {} /\ fetchedAt = 0

\* The pipeline is not running.
PipelineIdle ==
    /\ now = 0 /\ cacheFile = [kind |-> "absent"]
    /\ dictFile = [exists |-> FALSE] /\ remote = <<>>
    /\ InvocationIdle

InitMatch ==
    /\ m_string \in MatchTexts
    /\ m_and \in MatchLists
    /\ m_or \in MatchLists
    /\ m_not \in MatchLists
    /\ m_out = None
    /\ m_pc = "call"
    /\ m_title = <<>>
    /\ FetchIdle
    /\ PipelineIdle
    /\ OthersIdle

Evaluate ==
    /\ m_pc = "call"
    /\ m_out' = and_or_not_match(m_string, m_and, m_or, m_not)
    /\ m_pc' = "returned"
    /\ UNCHANGED <<m_string, m_and, m_or, m_not, m_title, f_vars, p_vars,
                   o_vars>>

\* cli, "Decorate table", for an entry that matched: the title with the
\* markers of the AND and OR spans.
Decorate ==
    /\ m_pc = "returned"
    /\ m_out.is_match
    /\ m_title' = formated_title(m_string, Len(m_string),
                                 Offsets(m_out.matches_and, "start"),
                                 Offsets(m_out.matches_and, "end"),
                                 Offsets(m_out.matches_or, "start"),
                                 Offsets(m_out.matches_or, "end"))
    /\ m_pc' = "decorated"
    /\ UNCHANGED <<m_string, m_and, m_or, m_not, m_out, f_vars, p_vars,
                   o_vars>>

NextMatch ==
    \/ Evaluate
    \/ Decorate

SpecMatch == InitMatch /\ [][NextMatch]_vars

\* ------------------------------------------------------------ fetch_entries
Min(a, b) == IF a <= b THEN a ELSE b

\* client.get_entries(order="published_at", direction="asc", status=status,
\* offset=offset, limit=limit) on a remote source whose entries of that
\* status are `source`, in ascending publish order.
get_entries(source, offset, limit) ==
    [total   |-> Len(source),
     entries |-> SubSeq(source, offset + 1, Min(offset + limit, Len(source)))]

\* An iteration that keeps only the batch just fetched.
FetchIteration_DropEarlier(count, acc, response) ==
    LET batch == response.entries
        total == count + Len(batch)
    IN  [fetch_total |-> response.total,
         fetch_count |-> total,
         entries     |-> batch,
         done        |-> total >= response.total]

\* One iteration of the `while True` loop of fetch_entries, after the
\* response has arrived.
FetchIteration(count, acc, response) ==
    LET batch == response.entries
        total == count + Len(batch)
    IN  [fetch_total |-> response.total,
         fetch_count |-> total,
         entries     |-> acc \o batch,
         done        |-> total >= response.total]

\* --------------------------------------- fetch_entries called on its own
IdsUpTo(n) == [i \in 1..n |-> i]

InitFetch ==
    /\ f_source \in {IdsUpTo(n) : n \in (0..MaxSource) \cup {250}}
    /\ f_batch \in (1..MaxBatch) \cup {100}
    /\ f_count = 0
    /\ f_total = 0
    /\ f_entries = <<>>
    /\ f_calls = <<>>
    /\ f_pc = "loop"
    /\ MatchIdle
    /\ PipelineIdle
    /\ OthersIdle

FetchCall ==
    /\ f_pc = "loop"
    /\ LET response == get_entries(f_source, f_count, f_batch)
           it == FetchIteration(f_count, f_entries, response)
       IN  /\ f_calls' = Append(f_calls, [offset   |-> f_count,
                                          limit    |-> f_batch,
                                          returned |-> Len(response.entries),
                                          total    |-> response.total])
           /\ f_total' = it.fetch_total
           /\ f_count' = it.fetch_count
           /\ f_entries' = it.entries
           /\ f_pc' = IF it.done THEN "returned" ELSE "loop"
    /\ UNCHANGED <<f_source, f_batch, m_vars, p_vars, o_vars>>

NextFetch == FetchCall

SpecFetch == InitFetch /\ [][NextFetch]_vars

\* ------------------------------- fetch_entries on a source of any behaviour
\* The remote source is a black box that answers every call without error:
\* with any total, and with a page of any number of entries up to the
\* limit, the next ones in publish order.  f_source is the list the source
\* held when fetch_entries was called; a source that keeps it answers as
\* get_entries does.
Responses(offset, limit) ==
    {[total |-> t, entries |-> [i \in 1..k |-> offset + i]] :
        t \in 0..MaxSource, k \in 0..limit}

\* The answer logged for a call is the one a source holding f_source gives.
Consistent(call) ==
    /\ call.total = Len(f_source)
    /\ call.returned =
         Len(get_entries(f_source, call.offset, call.limit).entries)

\* So far the source has answered as one that holds the fixed list f_source.
Steady == \A i \in 1..Len(f_calls) : Consistent(f_calls[i])

InitSource ==
    /\ f_source \in {IdsUpTo(n) : n \in 0..MaxSource}
    /\ f_batch \in 1..MaxBatch
    /\ f_count = 0
    /\ f_total = 0
    /\ f_entries = <<>>
    /\ f_calls = <<>>
    /\ f_pc = "loop"
    /\ MatchIdle
    /\ PipelineIdle
    /\ OthersIdle

\* One iteration of the loop of fetch_entries: the call, any answer, and
\* the test that ends the loop.  f_calls keeps the calls up to the first
\* answer that a source holding f_source would not give.
SourceCall ==
    /\ f_pc = "loop"
    /\ \E response \in Responses(f_count, f_batch) :
         LET it == FetchIteration(f_count, f_entries, response)
             call == [offset   |-> f_count,
                      limit    |-> f_batch,
                      returned |-> Len(response.entries),
                      total    |-> response.total]
         IN  /\ f_calls' = IF Steady THEN Append(f_calls, call) ELSE f_calls
             /\ f_total' = it.fetch_total
             /\ f_count' = it.fetch_count
             /\ f_entries' = it.entries
             /\ f_pc' = IF it.done THEN "returned" ELSE "loop"
    /\ UNCHANGED <<f_source, f_batch, m_vars, p_vars, o_vars>>

NextSource == SourceCall

\* The loop runs on as long as it has not ended, and every call is answered.
SpecSource == InitSource /\ [][NextSource]_vars /\ WF_vars(SourceCall)

\* ------------------------------------------- the dictionary used on its own
\* Dictionary files without two lines that are equal ignoring case, and the
\* keywords appended to them.
DictTexts == {<<>>, <<"b">>, <<"A", "\n", "b">>}
DictWords == {<<"a">>, <<"B">>, <<" ", "b">>}

InitDict ==
    /\ d_file \in DictTexts
    /\ d_start = d_file
    /\ d_lines = <<>>
    /\ d_pc = "closed"
    /\ d_last = None
    /\ d_count = 0
    /\ MatchIdle /\ FetchIdle /\ PipelineIdle /\ CacheIdle /\ RaceIdle

\* SimpleSetInFile(path): a process builds the object, which reads the file.
DictOpen ==
    /\ d_pc = "closed"
    /\ d_lines' = SimpleSetInFile_read(d_file)
    /\ d_pc' = "open"
    /\ UNCHANGED <<d_file, d_start, d_last, d_count, p_vars, m_vars, f_vars, c_vars, x_vars>>

\* user_dict.append(line)
DictAppend ==
    /\ d_pc = "open"
    /\ d_count < MaxAppends
    /\ \E line \in DictWords :
         LET set == SimpleSetInFile_append(
                        [lines |-> d_lines, text |-> d_file, appended |-> <<>>],
                        line)
         IN  /\ d_lines' = set.lines
             /\ d_file' = set.text
             /\ d_last' = [line |-> line, before |-> d_file]
    /\ d_count' = d_count + 1
    /\ UNCHANGED <<d_pc, d_start, p_vars, m_vars, f_vars, c_vars, x_vars>>

\* The process ends; the file stays.
DictClose ==
    /\ d_pc = "open"
    /\ d_pc' = "closed"
    /\ d_lines' = <<>>
    /\ UNCHANGED <<d_file, d_start, d_last, d_count, p_vars, m_vars, f_vars, c_vars, x_vars>>

NextDict ==
    \/ DictOpen
    \/ DictAppend
    \/ DictClose

SpecDict == InitDict /\ [][NextDict]_vars

\* ----------------------------------------- the cache object used on its own
\* Payloads written to the cache, and the lifetimes a cache is built with:
\* none, a zero-length one, and positive ones.
CachePayloads ==
    {None, PyList(<<>>),
     PyList(<<[id |-> 1, title |-> <<"A">>, status |-> "unread"]>>)}
Lifetimes == {None, TimeDelta(0), TimeDelta(1), TimeDelta(CACHE_LIFE)}

InitCache ==
    /\ c_now = 0
    /\ c_import = 0
    /\ c_file \in {NoCache, CorruptCache, CacheRecord(0, PyList(<<>>))}
    /\ c_obj = None
    /\ c_pc = "run"
    /\ c_op = None
    /\ c_stack = <<>> /\ c_dumps = 0
    /\ MatchIdle /\ FetchIdle /\ PipelineIdle /\ DictIdle /\ RaceIdle

\* The clock advances while the process runs.
CacheTick ==
    /\ c_pc \in {"run", "write"}
    /\ c_now < MaxTime
    /\ c_now' = c_now + 1
    /\ UNCHANGED <<c_import, c_file, c_obj, c_pc, c_op, c_stack, c_dumps,
                   p_vars, m_vars, f_vars, d_vars, x_vars>>

\* Was the call before this one a completed write?  Then its payload and
\* the time stamp it persisted.
JustWritten ==
    IF c_op.type = "write"
    THEN [type |-> "written", payload |-> c_op.payload,
          stamp |-> c_file.cached_time]
    ELSE None

\* SimpleCache(path, lifetime): the constructor, which reads.
CacheNew ==
    /\ c_pc = "run"
    /\ \E lifetime \in Lifetimes :
         LET r == SimpleCache_read(c_file, c_now)
         IN  /\ c_file' = r.file
             /\ c_obj' = [type |-> "SimpleCache", lifetime |-> lifetime,
                          payload |-> r.payload, cached_time |-> r.cached_time]
    /\ c_op' = [type |-> "new", at |-> c_now, before |-> c_file,
                after_write |-> JustWritten]
    /\ UNCHANGED <<c_now, c_import, c_pc, c_stack, c_dumps,
                   p_vars, m_vars, f_vars, d_vars, x_vars>>

\* cache.read()
CacheRead ==
    /\ c_pc = "run" /\ c_obj # None
    /\ LET r == SimpleCache_read(c_file, c_now)
       IN  /\ c_file' = r.file
           /\ c_obj' = [c_obj EXCEPT !.payload = r.payload,
                                     !.cached_time = r.cached_time]
    /\ c_op' = [type |-> "read", at |-> c_now, before |-> c_file,
                after_write |-> JustWritten]
    /\ UNCHANGED <<c_now, c_import, c_pc, c_stack, c_dumps,
                   p_vars, m_vars, f_vars, d_vars, x_vars>>

\* cache.write(payload) is entered.
CacheWriteBegin ==
    /\ c_pc = "run" /\ c_obj # None
    /\ \E payload \in CachePayloads :
         c_op' = [type |-> "write_begin", payload |-> payload, start |-> c_now]
    /\ c_pc' = "write"
    /\ UNCHANGED <<c_now, c_import, c_file, c_obj, c_stack, c_dumps,
                   p_vars, m_vars, f_vars, d_vars, x_vars>>

\* cache.write(payload) stamps and dumps the record, reads it and returns.
CacheWriteEnd ==
    /\ c_pc = "write"
    /\ LET w == SimpleCache_write(c_file, c_op.payload, c_now)
       IN  /\ c_file' = w.file
           /\ c_obj' = [c_obj EXCEPT !.payload = w.payload,
                                     !.cached_time = w.cached_time]
    /\ c_op' = [type |-> "write", payload |-> c_op.payload,
                start |-> c_op.start, end |-> c_now]
    /\ c_pc' = "run"
    /\ UNCHANGED <<c_now, c_import, c_stack, c_dumps,
                   p_vars, m_vars, f_vars, d_vars, x_vars>>

\* cache.is_expired(time): the reference time is given, or left to the
\* default argument, which Python evaluated when the module was imported.
CacheIsExpired ==
    /\ c_pc = "run" /\ c_obj # None
    /\ \E explicit \in BOOLEAN, given \in 0..MaxTime :
         /\ ~explicit => given = c_import
         /\ c_op' = [type |-> "is_expired", explicit |-> explicit,
                     time |-> given, at |-> c_now,
                     result |-> is_expired(c_obj.cached_time, c_obj.lifetime,
                                           given)]
    /\ UNCHANGED <<c_now, c_import, c_file, c_obj, c_pc, c_stack, c_dumps,
                   p_vars, m_vars, f_vars, d_vars, x_vars>>

NextCache ==
    \/ CacheTick
    \/ CacheNew
    \/ CacheRead
    \/ CacheWriteBegin
    \/ CacheWriteEnd
    \/ CacheIsExpired

SpecCache == InitCache /\ [][NextCache]_vars

\* ------------------------------- read() and write(), statement by statement
\* read() calls write(None) and write() calls read(): the calls are followed
\* frame by frame.  A frame is the method, where it stands, and for write()
\* its payload.
Frame(fn, at, payload) == [fn |-> fn, at |-> at, payload |-> payload]
Top == c_stack[Len(c_stack)]
Pop == SubSeq(c_stack, 1, Len(c_stack) - 1)
Goto(at) == [c_stack EXCEPT ![Len(c_stack)].at = at]

\* An attribute that no statement has assigned yet, and a datetime.
Unset == [type |-> "unset"]
DateTime(ticks) == [type |-> "datetime", ticks |-> ticks]

\* A dump whose bytes are not in the file when it is read next.
pickle_dump_Unflushed(time, payload) == CorruptCache

\* `cached_data = {"cached_time": datetime.now(), "data": payload}` and
\* `pickle.dump(cached_data, self.path.open("wb"))`: the file afterwards.
pickle_dump(time, payload) == CacheRecord(time, payload)

\* The try block of read(): pickle.load and the two assertions.
pickle_load(file) ==
    IF file.kind = "record"
    THEN [ok |-> TRUE, cached_time |-> file.cached_time, data |-> file.data]
    ELSE [ok |-> FALSE]

InitRecover ==
    /\ c_now = 0
    /\ c_import = 0
    /\ c_file \in {NoCache, CorruptCache, CacheRecord(0, PyList(<<>>))}
    /\ c_obj = None
    /\ c_pc = "run"
    /\ c_op = None
    /\ c_stack = <<>> /\ c_dumps = 0
    /\ MatchIdle /\ FetchIdle /\ PipelineIdle /\ DictIdle /\ RaceIdle

\* The clock advances at any time.
RecoverTick ==
    /\ c_pc = "run"
    /\ c_now < MaxTime
    /\ c_now' = c_now + 1
    /\ UNCHANGED <<c_import, c_file, c_obj, c_pc, c_op, c_stack, c_dumps,
                   p_vars, m_vars, f_vars, d_vars, x_vars>>

\* Between two calls the file is deleted or damaged by something else.
StoreLost ==
    /\ c_pc = "run" /\ c_stack = <<>>
    /\ c_file.kind = "record"
    /\ c_file' \in {NoCache, CorruptCache}
    /\ c_op' = [type |-> "lost"]
    /\ UNCHANGED <<c_now, c_import, c_obj, c_pc, c_stack, c_dumps,
                   p_vars, m_vars, f_vars, d_vars, x_vars>>

\* SimpleCache(path, lifetime), whose last statement is self.read(), or
\* cache.read() on the object: read() is entered.
RecoverCall ==
    /\ c_pc = "run" /\ c_stack = <<>>
    /\ \E kind \in {"new", "read"} :
         /\ kind = "read" => c_obj # None
         /\ c_obj' = IF kind = "new"
                     THEN [type |-> "SimpleCache", lifetime |-> None,
                           payload |-> Unset, cached_time |-> Unset]
                     ELSE c_obj
         /\ c_op' = [type |-> "call", kind |-> kind, before |-> c_file,
                     outcome |-> "running"]
    /\ c_stack' = <<Frame("read", "exists", None)>>
    /\ c_dumps' = 0
    /\ UNCHANGED <<c_now, c_import, c_file, c_pc,
                   p_vars, m_vars, f_vars, d_vars, x_vars>>

\* The outcome of the call once its last frame has returned.
Outcome(stack) ==
    IF stack = <<>> THEN [c_op EXCEPT !.outcome = "returned"] ELSE c_op

\* read(): `if not self.path.exists(): self.write(None)`
ReadExists ==
    /\ c_stack # <<>> /\ Top.fn = "read" /\ Top.at = "exists"
    /\ IF c_file.kind = "absent"
       THEN /\ Len(c_stack) < MaxDepth
            /\ c_stack' = Append(Goto("load"), Frame("write", "dump", None))
       ELSE c_stack' = Goto("load")
    /\ UNCHANGED <<c_now, c_import, c_file, c_obj, c_pc, c_op, c_dumps,
                   p_vars, m_vars, f_vars, d_vars, x_vars>>

\* read(): the try block, and on an exception `self.write(None)`.
ReadLoad ==
    /\ c_stack # <<>> /\ Top.fn = "read" /\ Top.at = "load"
    /\ LET loaded == pickle_load(c_file)
       IN  IF loaded.ok
           THEN /\ c_obj' = [c_obj EXCEPT
                               !.cached_time = DateTime(loaded.cached_time),
                               !.payload = loaded.data]
                /\ c_stack' = Pop
                /\ c_op' = Outcome(Pop)
           ELSE /\ Len(c_stack) < MaxDepth
                /\ c_stack' = Append(Goto("recovered"),
                                     Frame("write", "dump", None))
                /\ UNCHANGED <<c_obj, c_op>>
    /\ UNCHANGED <<c_now, c_import, c_file, c_pc, c_dumps,
                   p_vars, m_vars, f_vars, d_vars, x_vars>>

\* read(): the except block is left and read() returns.
ReadRecovered ==
    /\ c_stack # <<>> /\ Top.fn = "read" /\ Top.at = "recovered"
    /\ c_stack' = Pop
    /\ c_op' = Outcome(Pop)
    /\ UNCHANGED <<c_now, c_import, c_file, c_obj, c_pc, c_dumps,
                   p_vars, m_vars, f_vars, d_vars, x_vars>>

\* write(): the record is stamped and dumped, or the file cannot be opened
\* for writing and the exception leaves every frame; a constructor that
\* raises leaves no object.
WriteDump ==
    /\ c_stack # <<>> /\ Top.fn = "write" /\ Top.at = "dump"
    /\ \E ok \in BOOLEAN :
         IF ok
         THEN /\ c_file' = pickle_dump(c_now, Top.payload)
              /\ c_dumps' = c_dumps + 1
              /\ c_stack' = Goto("reread")
              /\ UNCHANGED <<c_obj, c_op>>
         ELSE /\ c_stack' = <<>>
              /\ c_op' = [c_op EXCEPT !.outcome = "raised"]
              /\ c_obj' = IF c_op.kind = "new" THEN None ELSE c_obj
              /\ UNCHANGED <<c_file, c_dumps>>
    /\ UNCHANGED <<c_now, c_import, c_pc,
                   p_vars, m_vars, f_vars, d_vars, x_vars>>

\* write(): `self.read()`
WriteReread ==
    /\ c_stack # <<>> /\ Top.fn = "write" /\ Top.at = "reread"
    /\ Len(c_stack) < MaxDepth
    /\ c_stack' = Append(Goto("return"), Frame("read", "exists", None))
    /\ UNCHANGED <<c_now, c_import, c_file, c_obj, c_pc, c_op, c_dumps,
                   p_vars, m_vars, f_vars, d_vars, x_vars>>

\* write() returns.
WriteReturn ==
    /\ c_stack # <<>> /\ Top.fn = "write" /\ Top.at = "return"
    /\ c_stack' = Pop
    /\ UNCHANGED <<c_now, c_import, c_file, c_obj, c_pc, c_op, c_dumps,
                   p_vars, m_vars, f_vars, d_vars, x_vars>>

\* The next statement of the frame on top.
RecoverStep ==
    \/ ReadExists
    \/ ReadLoad
    \/ ReadRecovered
    \/ WriteDump
    \/ WriteReread
    \/ WriteReturn

NextRecover ==
    \/ RecoverTick
    \/ StoreLost
    \/ RecoverCall
    \/ RecoverStep

\* A call that has been made runs on: the interpreter executes the next
\* statement.
SpecRecover == InitRecover /\ [][NextRecover]_vars /\ WF_vars(RecoverStep)

\* ------------------------------------------------------------ the pipeline
Entry(id, title, status) == [id |-> id, title |-> title, status |-> status]

\* The entries on the server when the model starts.
RemoteEntries ==
    << Entry(1, <<"A">>, "unread"),
       Entry(2, <<"a", " ", "b">>, "unread"),
       Entry(3, <<"B">>, "unread") >>

\* A payload cached by an earlier session, with entries already handled.
OldPayload ==
    << Entry(1, <<"A">>, "read"),
       Entry(2, <<"a", " ", "b">>, "removed"),
       Entry(3, <<"B">>, "unread") >>

\* The keyword lists a user gives for one option group: none, one keyword,
\* or one keyword that starts with a blank.
KeywordLists == {<<>>, <<<<"a">>>>, <<<<" ", "b">>>>}

\* The keyword lists of a user who may also mistype a pattern.
PatternLists == KeywordLists \cup {<<<<"(">>>>}

\* Where an invocation ends: normally, on Abort, or on an exception.
Terminal == {"no_result", "aborted", "done", "pattern_error",
             "fetch_failed", "dict_error", "update_failed"}

\* Before the first invocation, with the files found in one of the given
\* states.
InitWith(cacheFiles, dictFiles) ==
    /\ now = 0
    /\ cacheFile \in cacheFiles
    /\ dictFile \in dictFiles
    /\ remote = RemoteEntries
    /\ pc = "idle" /\ runs = 0 /\ importTime = 0
    /\ keywords_and = <<>> /\ keywords_or = <<>> /\ keywords_not = <<>>
    /\ force_fetch = FALSE /\ dryrun = FALSE
    /\ entries = None /\ fetch_count = 0 /\ fetch_acc = <<>>
    /\ results = <<>> /\ ids = <<>>
    /\ cache0 = cacheFile /\ remote0 = remote
    /\ loadTime = 0 /\ presented = None
    /\ answer = "none" /\ getCalls = <<>> /\ updateCalls = <<>>
    /\ cacheLog = <<>> /\ dictAppends = <<>> /\ reported = None
    /\ appendedBefore = {} /\ markedBefore = {} /\ searched = None
    /\ atSearch = None
    /\ keywordsBefore = {} /\ fetchedAt = 0
    /\ MatchIdle /\ FetchIdle /\ OthersIdle

Init ==
    InitWith({NoCache, CorruptCache, CacheRecord(0, None),
              CacheRecord(0, PyList(<<>>)),
              CacheRecord(0, PyList(OldPayload))},
             {NoFile, TextFile(<<>>), TextFile(<<"A">>)})

Range(seq) == {seq[i] : i \in 1..Len(seq)}

\* The clock advances between invocations, and at most one tick between the
\* import of simple_cache and the call of cli.
Tick ==
    /\ now < MaxTime
    /\ \/ pc = "idle"
       \/ pc = "load" /\ now = importTime
    /\ now' = now + 1
    /\ UNCHANGED <<cacheFile, dictFile, remote, r_vars, h_vars, m_vars, f_vars, o_vars>>

\* The process starts: the modules are imported (the default argument of
\* is_expired is evaluated) and click hands the options to cli, which joins
\* the positional keywords and the --and keywords.
Invoke(limit, lists) ==
    /\ pc = "idle"
    /\ runs < limit
    /\ \E keywords \in lists, opt_and \in lists,
          opt_or \in lists, opt_not \in lists,
          opt_force \in BOOLEAN, opt_dryrun \in BOOLEAN :
         /\ keywords = <<>> \/ opt_and = <<>>
         /\ keywords_and' = keywords \o opt_and
         /\ keywords_or' = opt_or
         /\ keywords_not' = opt_not
         /\ force_fetch' = opt_force
         /\ dryrun' = opt_dryrun
    /\ pc' = "load"
    /\ runs' = runs + 1
    /\ importTime' = now
    /\ cache0' = cacheFile /\ remote0' = remote /\ loadTime' = now
    /\ UNCHANGED <<w_vars, entries, fetch_count, fetch_acc, results, ids,
                   searched, atSearch, presented, answer, getCalls, updateCalls,
                   cacheLog, dictAppends, reported, appendedBefore,
                   markedBefore, keywordsBefore, fetchedAt, m_vars, f_vars,
                   o_vars>>

\* `(not entries) or force_fetch` without the empty-list case.
NeedsFetch_OnlyNone(loaded, force) == IsNone(loaded) \/ force

\* `(not entries) or force_fetch`
NeedsFetch(loaded, force) ==
    (IsNone(loaded) \/ loaded.items = <<>>) \/ force

\* cli, "Fetch and cacheing": the try block and the decision to fetch.
LoadCache ==
    /\ pc = "load"
    /\ LET cache == SimpleCache_read(cacheFile, now)
           valid == /\ cache.payload.type = "list"
                    /\ ~is_expired(cache.cached_time, TimeDelta(CACHE_LIFE),
                                   importTime)
           loaded == IF valid THEN cache.payload ELSE None
       IN  /\ cacheFile' = cache.file
           /\ cacheLog' = cacheLog \o cache.writes
           /\ entries' = loaded
           /\ pc' = IF NeedsFetch(loaded, force_fetch) THEN "fetch" ELSE "search"
    /\ loadTime' = now
    /\ UNCHANGED <<now, dictFile, remote, runs, importTime, keywords_and,
                   keywords_or, keywords_not, force_fetch, dryrun,
                   fetch_count, fetch_acc, results, ids, cache0, remote0, searched, atSearch,
                   presented, answer, getCalls, updateCalls, dictAppends,
                   reported, appendedBefore, markedBefore, keywordsBefore,
                   fetchedAt, m_vars, f_vars, o_vars>>

\* The server's entries of one status, in ascending publish order.
WithStatus(list, status) == SelectSeq(list, LAMBDA e : e.status = status)

\* One get_entries call of fetch_entries(client, "unread", batch size).  The
\* call fails (the exception leaves cli) or answers; after the answer that
\* ends the loop cli writes the fetched list to the cache.
FetchPage ==
    /\ pc = "fetch"
    /\ getCalls' = Append(getCalls, fetch_count)
    /\ \E ok \in BOOLEAN :
         IF ~ok
         THEN /\ pc' = "fetch_failed"
              /\ UNCHANGED <<cacheFile, cacheLog, entries, fetch_count,
                             fetch_acc, fetchedAt>>
         ELSE LET response == get_entries(WithStatus(remote, "unread"),
                                          fetch_count, PageSize)
                  it == FetchIteration(fetch_count, fetch_acc, response)
                  cache == SimpleCache_read(cacheFile, now)
                  written == SimpleCache_write(cache.file, PyList(it.entries), now)
              IN  /\ fetch_count' = it.fetch_count
                  /\ fetch_acc' = it.entries
                  /\ IF it.done
                     THEN /\ entries' = PyList(it.entries)
                          /\ cacheFile' = written.file
                          /\ cacheLog' = cacheLog \o cache.writes \o written.writes
                          /\ fetchedAt' = now
                          /\ pc' = "search"
                     ELSE /\ pc' = "fetch"
                          /\ UNCHANGED <<cacheFile, cacheLog, entries,
                                         fetchedAt>>
    /\ UNCHANGED <<now, dictFile, remote, runs, importTime, keywords_and,
                   keywords_or, keywords_not, force_fetch, dryrun, results,
                   ids, cache0, remote0, searched, atSearch, loadTime, presented, answer,
                   updateCalls, dictAppends, reported, appendedBefore,
                   markedBefore, keywordsBefore, m_vars, f_vars, o_vars>>

\* A status test that lets removed entries through.
IsSkipped_OnlyRead(status) == status = "read"

\* `entry["status"] in ("read", "removed", )`
IsSkipped(status) == status \in {"read", "removed"}

\* The search loop of cli: the positions in `list` of the entries appended
\* to `results`, in iteration order.
SearchResults(list, patterns_and, patterns_or, patterns_not) ==
    SelectSeq([i \in 1..Len(list) |-> i],
              LAMBDA i :
                /\ ~IsSkipped(list[i].status)
                /\ and_or_not_match(list[i].title, PyList(patterns_and),
                                    PyList(patterns_or),
                                    PyList(patterns_not)).is_match)

\* The search loop raises re.error at the first entry it hands to the
\* matcher, whose three list comprehensions compile every pattern.
SearchRaises(list, patterns) ==
    /\ \E i \in 1..Len(list) : ~IsSkipped(list[i].status)
    /\ \E k \in 1..Len(patterns) : IsMalformed(patterns[k])

\* A test that never finds the result list empty.
NoResult_Never(found) == FALSE

\* `len(results) <= 0`
NoResult(found) == Len(found) <= 0

\* cli, "Search": the loop, then "No result found." or the table.
Search ==
    /\ pc = "search"
    /\ LET found == SearchResults(entries.items, keywords_and, keywords_or,
                                  keywords_not)
           raises == SearchRaises(entries.items,
                                  keywords_and \o keywords_or \o keywords_not)
       IN  /\ searched' = entries
           /\ atSearch' = [cache |-> cacheFile, dict |-> dictFile,
                            remote |-> remote, log |-> cacheLog]
           /\ IF raises
              THEN /\ pc' = "pattern_error"
                   /\ results' = <<>>
                   /\ presented' = presented
              ELSE IF NoResult(found)
              THEN /\ pc' = "no_result"
                   /\ results' = found
                   /\ presented' = presented
              ELSE /\ pc' = "confirm"
                   /\ results' = found
                   /\ presented' = [cache |-> cacheFile, dict |-> dictFile,
                                    remote |-> remote, rows |-> found,
                                    log |-> cacheLog]
    /\ UNCHANGED <<w_vars, runs, importTime, keywords_and, keywords_or,
                   keywords_not, force_fetch, dryrun, entries, fetch_count,
                   fetch_acc, ids, cache0, remote0, loadTime, answer, getCalls,
                   updateCalls, cacheLog, dictAppends, reported,
                   appendedBefore, markedBefore, keywordsBefore, fetchedAt,
                   m_vars, f_vars, o_vars>>

\* A prompt that returns the answer instead of aborting on "no".
click_confirm_NoAbort(yes) == TRUE

\* click.confirm("Mark all as read?", default=False, abort=True): TRUE when
\* it returns, FALSE when it raises Abort.
click_confirm(yes) == yes

\* A marking that changes only the last result, the one the loop variable
\* is left on.
MarkRead_LastOnly(list, found) ==
    [i \in 1..Len(list) |->
        IF found # <<>> /\ i = found[Len(found)]
        THEN [list[i] EXCEPT !.status = "read"] ELSE list[i]]

\* A marking that runs over the whole list instead of the results.
MarkRead_All(list, found) ==
    [i \in 1..Len(list) |-> [list[i] EXCEPT !.status = "read"]]

\* `for result in results: result["status"] = "read"`: the results are the
\* very objects of `entries`.
MarkRead(list, found) ==
    [i \in 1..Len(list) |->
        IF i \in Range(found)
        THEN [list[i] EXCEPT !.status = "read"] ELSE list[i]]

\* cli from the prompt to the remote call: the answer, the dictionary
\* object, the ids, and either the dry-run report or the local marking.
Confirm ==
    /\ pc = "confirm"
    /\ \E yes \in BOOLEAN :
         /\ answer' = IF yes THEN "yes" ELSE "no"
         /\ IF ~click_confirm(yes)
            THEN /\ pc' = "aborted"
                 /\ UNCHANGED <<cacheFile, dictFile, entries, ids, cacheLog,
                                dictAppends, reported>>
            ELSE IF ~dictFile.exists
            THEN /\ pc' = "dict_error"
                 /\ UNCHANGED <<cacheFile, dictFile, entries, ids, cacheLog,
                                dictAppends, reported>>
            ELSE LET entry_ids == [i \in 1..Len(results) |->
                                     entries.items[results[i]].id]
                     user_dict == [lines    |-> SimpleSetInFile_read(dictFile.text),
                                   text     |-> dictFile.text,
                                   appended |-> <<>>]
                     cache == SimpleCache_read(cacheFile, now)
                     marked == MarkRead(entries.items, results)
                     written == SimpleCache_write(cache.file, PyList(marked), now)
                     added == AppendWords(user_dict, keywords_and \o keywords_or)
                 IN  /\ ids' = entry_ids
                     /\ reported' = PyList(entry_ids)
                     /\ IF dryrun
                        THEN /\ pc' = "done"
                             /\ UNCHANGED <<cacheFile, dictFile, entries,
                                            cacheLog, dictAppends>>
                        ELSE /\ pc' = "update"
                             /\ entries' = PyList(marked)
                             /\ cacheFile' = written.file
                             /\ cacheLog' = cacheLog \o cache.writes \o written.writes
                             /\ dictFile' = TextFile(added.text)
                             /\ dictAppends' = added.appended
    /\ UNCHANGED <<now, remote, runs, importTime, keywords_and, keywords_or,
                   keywords_not, force_fetch, dryrun, fetch_count, fetch_acc,
                   results, cache0, remote0, searched, atSearch, loadTime, presented, getCalls,
                   updateCalls, appendedBefore, markedBefore, keywordsBefore,
                   fetchedAt, m_vars, f_vars, o_vars>>

\* client.update_entries(entry_ids, status) on the server's entries.
update_entries(list, entry_ids, status) ==
    [i \in 1..Len(list) |->
        IF list[i].id \in Range(entry_ids)
        THEN [list[i] EXCEPT !.status = status] ELSE list[i]]

\* cli, the last call: client.update_entries(entry_ids=ids, status="read"),
\* which succeeds or raises.
UpdateRemote ==
    /\ pc = "update"
    /\ updateCalls' = Append(updateCalls, [entry_ids |-> ids, status |-> "read"])
    /\ \E ok \in BOOLEAN :
         IF ok
         THEN pc' = "done" /\ remote' = update_entries(remote, ids, "read")
         ELSE pc' = "update_failed" /\ remote' = remote
    /\ UNCHANGED <<now, cacheFile, dictFile, runs, importTime, keywords_and,
                   keywords_or, keywords_not, force_fetch, dryrun, entries,
                   fetch_count, fetch_acc, results, ids, cache0, remote0, searched, atSearch,
                   loadTime, presented, answer, getCalls, cacheLog,
                   dictAppends, reported, appendedBefore, markedBefore,
                   keywordsBefore, fetchedAt, m_vars, f_vars, o_vars>>

\* The process is gone: its objects and what was observed of it are
\* forgotten; the files, the server and the clock stay.
Exit ==
    /\ pc \in Terminal
    /\ pc' = "idle"
    /\ importTime' = 0
    /\ keywords_and' = <<>> /\ keywords_or' = <<>> /\ keywords_not' = <<>>
    /\ force_fetch' = FALSE /\ dryrun' = FALSE
    /\ entries' = None /\ fetch_count' = 0 /\ fetch_acc' = <<>>
    /\ results' = <<>> /\ ids' = <<>>
    /\ cache0' = cacheFile /\ remote0' = remote
    /\ loadTime' = 0 /\ presented' = None
    /\ searched' = None /\ atSearch' = None
    /\ answer' = "none" /\ getCalls' = <<>> /\ updateCalls' = <<>>
    /\ cacheLog' = <<>> /\ dictAppends' = <<>> /\ reported' = None
    /\ appendedBefore' = appendedBefore \cup Range(dictAppends)
    /\ markedBefore' =
         IF pc \in {"done", "update_failed"} /\ ~dryrun
         THEN markedBefore \cup Range(ids) ELSE markedBefore
    /\ keywordsBefore' =
         IF pc \in {"done", "update_failed"} /\ ~dryrun
         THEN keywordsBefore \cup {<<keywords_and, keywords_or, keywords_not>>}
         ELSE keywordsBefore
    /\ UNCHANGED <<w_vars, runs, fetchedAt, m_vars, f_vars, o_vars>>

\* An article is published: the server holds one more unread entry.
NewEntry == Entry(4, <<" ", "B">>, "unread")
Publish ==
    /\ pc = "idle"
    /\ Len(remote) = Len(RemoteEntries)
    /\ remote' = Append(remote, NewEntry)
    /\ UNCHANGED <<now, cacheFile, dictFile, r_vars, h_vars, m_vars, f_vars, o_vars>>

\* One invocation.
StartRun == Invoke(MaxRuns, KeywordLists)

Next ==
    \/ Tick
    \/ StartRun
    \/ Exit
    \/ LoadCache
    \/ FetchPage
    \/ Search
    \/ Confirm
    \/ UpdateRemote

Spec == Init /\ [][Next]_vars

\* One invocation after another, on the same files and server, starting
\* without a cache or with an old one, and without or with an empty
\* dictionary.
InitSessions ==
    InitWith({NoCache, CacheRecord(0, PyList(OldPayload))},
             {NoFile, TextFile(<<>>)})

StartSession == Invoke(MaxSessions, KeywordLists)

NextSessions ==
    \/ Tick
    \/ Publish
    \/ StartSession
    \/ Exit
    \/ LoadCache
    \/ FetchPage
    \/ Search
    \/ Confirm
    \/ UpdateRemote

SpecSessions == InitSessions /\ [][NextSessions]_vars

\* One invocation whose keywords may hold a pattern that does not compile.
StartPatterns == Invoke(MaxRuns, PatternLists)

NextPatterns ==
    \/ Tick
    \/ StartPatterns
    \/ Exit
    \/ LoadCache
    \/ FetchPage
    \/ Search
    \/ Confirm
    \/ UpdateRemote

SpecPatterns == Init /\ [][NextPatterns]_vars

\* ---------------------------------------- two invocations at the same time
\* Two processes run cli against the same cache file, dictionary file and
\* server.  Nothing in the code locks the files, so the steps of the two
\* interleave freely; the clock does not advance meanwhile.
Procs == {1, 2}

\* The --and keywords of the two invocations.
RaceKeywords == {<<<<"a">>>>, <<<<"B">>>>}

Proc(keywords) ==
    [pc |-> "load", keywords_and |-> keywords, entries |-> None,
     fetch_count |-> 0, fetch_acc |-> <<>>, loaded |-> None,
     results |-> <<>>, ids |-> <<>>, written |-> None]

InitRace ==
    /\ now = 0
    /\ cacheFile \in {NoCache, CacheRecord(0, PyList(RemoteEntries))}
    /\ dictFile = TextFile(<<>>)
    /\ remote = RemoteEntries
    /\ InvocationIdle
    /\ procs \in [Procs -> {Proc(k) : k \in RaceKeywords}]
    /\ lastWriter = 0
    /\ MatchIdle /\ FetchIdle /\ DictIdle /\ CacheIdle

\* cli of invocation q, "Fetch and cacheing": the try block and the
\* decision to fetch.
RaceLoad(q) ==
    /\ procs[q].pc = "load"
    /\ LET cache == SimpleCache_read(cacheFile, now)
           valid == /\ cache.payload.type = "list"
                    /\ ~is_expired(cache.cached_time, TimeDelta(CACHE_LIFE),
                                   now)
           loaded == IF valid THEN cache.payload ELSE None
       IN  /\ cacheFile' = cache.file
           /\ lastWriter' = IF cache.writes # <<>> THEN q ELSE lastWriter
           /\ procs' = [procs EXCEPT
                  ![q].entries = loaded,
                  ![q].pc = IF NeedsFetch(loaded, FALSE)
                            THEN "fetch" ELSE "search"]
    /\ UNCHANGED <<now, dictFile, remote, r_vars, h_vars, m_vars, f_vars,
                   d_vars, c_vars>>

\* One get_entries call of invocation q; after the answer that ends the
\* loop cli writes the fetched list to the cache.
RaceFetchPage(q) ==
    /\ procs[q].pc = "fetch"
    /\ \E ok \in BOOLEAN :
         IF ~ok
         THEN /\ procs' = [procs EXCEPT ![q].pc = "fetch_failed"]
              /\ UNCHANGED <<cacheFile, lastWriter>>
         ELSE LET response == get_entries(WithStatus(remote, "unread"),
                                          procs[q].fetch_count, PageSize)
                  it == FetchIteration(procs[q].fetch_count,
                                       procs[q].fetch_acc, response)
                  cache == SimpleCache_read(cacheFile, now)
                  written == SimpleCache_write(cache.file,
                                               PyList(it.entries), now)
              IN  IF it.done
                  THEN /\ procs' = [procs EXCEPT
                             ![q].fetch_count = it.fetch_count,
                             ![q].fetch_acc = it.entries,
                             ![q].entries = PyList(it.entries),
                             ![q].pc = "search"]
                       /\ cacheFile' = written.file
                       /\ lastWriter' = q
                  ELSE /\ procs' = [procs EXCEPT
                             ![q].fetch_count = it.fetch_count,
                             ![q].fetch_acc = it.entries]
                       /\ UNCHANGED <<cacheFile, lastWriter>>
    /\ UNCHANGED <<now, dictFile, remote, r_vars, h_vars, m_vars, f_vars,
                   d_vars, c_vars>>

\* cli of invocation q, "Search".
RaceSearch(q) ==
    /\ procs[q].pc = "search"
    /\ LET found == SearchResults(procs[q].entries.items,
                                  procs[q].keywords_and, <<>>, <<>>)
       IN  procs' = [procs EXCEPT
               ![q].results = found,
               ![q].loaded = procs[q].entries,
               ![q].pc = IF NoResult(found) THEN "no_result" ELSE "confirm"]
    /\ UNCHANGED <<p_vars, lastWriter, m_vars, f_vars, d_vars, c_vars>>

\* cli of invocation q from the prompt to the remote call.
RaceConfirm(q) ==
    /\ procs[q].pc = "confirm"
    /\ \E yes \in BOOLEAN :
         IF ~click_confirm(yes)
         THEN /\ procs' = [procs EXCEPT ![q].pc = "aborted"]
              /\ UNCHANGED <<cacheFile, dictFile, lastWriter>>
         ELSE IF ~dictFile.exists
         THEN /\ procs' = [procs EXCEPT ![q].pc = "dict_error"]
              /\ UNCHANGED <<cacheFile, dictFile, lastWriter>>
         ELSE LET list == procs[q].entries.items
                  found == procs[q].results
                  user_dict == [lines    |-> SimpleSetInFile_read(dictFile.text),
                                text     |-> dictFile.text,
                                appended |-> <<>>]
                  cache == SimpleCache_read(cacheFile, now)
                  marked == MarkRead(list, found)
                  written == SimpleCache_write(cache.file, PyList(marked), now)
                  added == AppendWords(user_dict, procs[q].keywords_and)
              IN  /\ procs' = [procs EXCEPT
                         ![q].ids = [i \in 1..Len(found) |-> list[found[i]].id],
                         ![q].entries = PyList(marked),
                         ![q].written = written.file,
                         ![q].pc = "update"]
                  /\ cacheFile' = written.file
                  /\ lastWriter' = q
                  /\ dictFile' = TextFile(added.text)
    /\ UNCHANGED <<now, remote, r_vars, h_vars, m_vars, f_vars, d_vars,
                   c_vars>>

\* cli of invocation q, the last call: client.update_entries.
RaceUpdate(q) ==
    /\ procs[q].pc = "update"
    /\ \E ok \in BOOLEAN :
         IF ok
         THEN /\ procs' = [procs EXCEPT ![q].pc = "done"]
              /\ remote' = update_entries(remote, procs[q].ids, "read")
         ELSE /\ procs' = [procs EXCEPT ![q].pc = "update_failed"]
              /\ remote' = remote
    /\ UNCHANGED <<now, cacheFile, dictFile, lastWriter, r_vars, h_vars,
                   m_vars, f_vars, d_vars, c_vars>>

NextRace ==
    \E q \in Procs :
        \/ RaceLoad(q)
        \/ RaceFetchPage(q)
        \/ RaceSearch(q)
        \/ RaceConfirm(q)
        \/ RaceUpdate(q)

SpecRace == InitRace /\ [][NextRace]_vars

\* The text contains the pattern somewhere, ignoring case.
Contains(string, pattern) ==
    \E i \in 1..(Len(string) + 1) :
        /\ i + Len(pattern) - 1 <= Len(string)
        /\ SubSeq(Lower(string), i, i + Len(pattern) - 1) = Lower(pattern)

\* The patterns of a list; none for an omitted list.
ListOf(patterns) == IF patterns = None THEN <<>> ELSE patterns.items

\* C1: and_or_not_match returns is_match = TRUE exactly when every AND
\* pattern occurs in the text ignoring case, the OR list is empty (or
\* omitted) or one of its patterns occurs, and no NOT pattern occurs; of the
\* titles 'Quarterly Report' and 'Weekly Digest' with AND = ['report'],
\* OR = [], NOT = ['weekly'] only the first matches.
C1_AndOrNot ==
    m_pc = "returned" =>
        LET pa == ListOf(m_and)
            po == ListOf(m_or)
            pn == ListOf(m_not)
        IN
        /\ m_out.is_match <=>
             /\ \A i \in 1..Len(pa) : Contains(m_string, pa[i])
             /\ \/ po = <<>>
                \/ \E i \in 1..Len(po) : Contains(m_string, po[i])
             /\ \A i \in 1..Len(pn) : ~Contains(m_string, pn[i])
        /\ (pa = <<>> /\ po = <<>> /\ pn = <<>>) => m_out.is_match
        /\ (pa = <<kw_report>> /\ po = <<>> /\ pn = <<kw_weekly>>) =>
             /\ m_string = QuarterlyReport => m_out.is_match
             /\ m_string = WeeklyDigest => ~m_out.is_match

\* C1 witness: the scenario's first title was evaluated and matched, with a
\* non-empty AND list, an empty OR list and a non-empty NOT list.
C1_Witness ==
    /\ m_pc = "returned"
    /\ m_string = QuarterlyReport
    /\ m_and = PyList(<<kw_report>>) /\ m_or = PyList(<<>>)
    /\ m_not = PyList(<<kw_weekly>>)
    /\ m_out.is_match

RECURSIVE Concat(_)
\* The concatenation of a sequence of sequences.
Concat(seqs) == IF seqs = <<>> THEN <<>> ELSE Head(seqs) \o Concat(Tail(seqs))

\* The number of entries returned by the first k calls.
RECURSIVE ReturnedBy(_, _)
ReturnedBy(calls, k) ==
    IF k = 0 THEN 0 ELSE ReturnedBy(calls, k - 1) + calls[k].returned

\* C4: the calls of fetch_entries have limit = batch size and offset = the
\* number of entries returned by the earlier calls (0 for the first); the
\* loop goes on while that cumulative count is below the reported total and
\* returns at the first call where it is not, with the concatenation of all
\* batches; total 250 with batch size 100 gives the offsets 0, 100, 200 and
\* 250 entries.
C4_Pagination ==
    /\ \A k \in 1..Len(f_calls) :
         /\ f_calls[k].limit = f_batch
         /\ f_calls[k].offset = ReturnedBy(f_calls, k - 1)
         /\ k < Len(f_calls) => ReturnedBy(f_calls, k) < f_calls[k].total
    /\ (f_pc = "loop" /\ f_calls # <<>>) =>
         ReturnedBy(f_calls, Len(f_calls)) < f_calls[Len(f_calls)].total
    /\ f_pc = "returned" =>
         /\ f_calls # <<>>
         /\ ReturnedBy(f_calls, Len(f_calls)) >= f_calls[Len(f_calls)].total
         /\ f_entries =
              Concat([k \in 1..Len(f_calls) |->
                        SubSeq(f_source, f_calls[k].offset + 1,
                               f_calls[k].offset + f_calls[k].returned)])
         /\ f_entries = f_source
         /\ (Len(f_source) = 250 /\ f_batch = 100) =>
              /\ [k \in 1..Len(f_calls) |-> f_calls[k].offset] = <<0, 100, 200>>
              /\ Len(f_entries) = 250

\* C4 witness: the pagination scenario has returned after a final partial
\* batch of 50 entries.
C4_Witness ==
    /\ f_pc = "returned"
    /\ Len(f_source) = 250 /\ f_batch = 100
    /\ Len(f_calls) = 3 /\ f_calls[3].returned = 50
    /\ Len(f_entries) = 250

\* ------------------------------------------------ claims on the pipeline
\* The search loop has run in this invocation.
Searched == searched # None

\* The ids of the results, taken from the list as it was searched.
ResultIds == [k \in 1..Len(results) |-> searched.items[results[k]].id]

\* C2: an entry whose status is not 'unread' in the searched list is never
\* among the results, never a row of the table shown for confirmation and
\* never among the ids passed to update_entries, whatever the patterns.
C2_OnlyUnread ==
    Searched =>
        \A j \in 1..Len(searched.items) :
            searched.items[j].status # "unread" =>
                /\ j \notin Range(results)
                /\ presented # None => j \notin Range(presented.rows)
                /\ \A c \in 1..Len(updateCalls) :
                     searched.items[j].id \notin Range(updateCalls[c].entry_ids)

\* C2 witness: the marking was sent to the server in a run whose cached
\* list held a removed entry that the patterns match.
C2_Witness ==
    /\ pc = "done" /\ updateCalls # <<>>
    /\ \E j \in 1..Len(searched.items) :
         /\ searched.items[j].status = "removed"
         /\ and_or_not_match(searched.items[j].title, PyList(keywords_and),
                             PyList(keywords_or), PyList(keywords_not)).is_match

\* The invocation has left LOADING_CACHE.
Loaded == pc \notin {"idle", "load"}

\* The invocation is in FETCHING or has been through it.
Fetching == pc = "fetch" \/ pc = "fetch_failed" \/ getCalls # <<>>

\* The cached payload fails the validation of the try block: no readable
\* record, a payload that is not a list, or a record that is_expired()
\* finds expired.
FailsValidation ==
    \/ cache0.kind # "record"
    \/ cache0.data.type # "list"
    \/ cache0.cached_time < importTime - CACHE_LIFE

\* C3: an invocation fetches exactly when the cached payload fails
\* validation, or the cached list is empty, or force_fetch is set; otherwise
\* it searches the cached entries without any get_entries call.  A missing
\* cache file leads to FETCHING, and so does a cache written two lifetimes
\* before the load.
C3_FetchDecision ==
    Loaded =>
        LET empty == ~FailsValidation /\ cache0.data.items = <<>>
            refetch == FailsValidation \/ empty \/ force_fetch
        IN  /\ Fetching <=> refetch
            /\ ~refetch => (getCalls = <<>> /\ pc # "fetch")
            /\ (pc = "search" /\ ~refetch) => entries = cache0.data
            /\ (cache0 = NoCache /\ ~force_fetch) => Fetching
            /\ (/\ cache0.kind = "record"
                /\ cache0.cached_time = loadTime - 2 * CACHE_LIFE
                /\ ~force_fetch) => Fetching

\* C3 witness: a cached list exactly one lifetime old is searched without
\* any fetch.
C3_Witness ==
    /\ pc = "search" /\ getCalls = <<>> /\ ~force_fetch
    /\ cache0.kind = "record"
    /\ loadTime = cache0.cached_time + CACHE_LIFE
    /\ entries = cache0.data /\ entries.items # <<>>

\* C5 as claimed: after a failed fetch the cache file equals the file before
\* the run, no list was written and update_entries was not called.
C5_CacheUntouched ==
    pc = "fetch_failed" =>
        /\ cacheFile = cache0
        /\ \A k \in 1..Len(cacheLog) : IsNone(cacheLog[k])
        /\ updateCalls = <<>>

\* C5, amended: after a failed fetch (on any page) update_entries was not
\* called, the server is unchanged and no entry list, partial or complete,
\* was written to the cache; the cache file equals the file before the run
\* when that file held a readable record, and otherwise it holds the empty
\* record (payload None, stamped at the load) that the load has put there.
C5_FetchFailure ==
    pc = "fetch_failed" =>
        /\ updateCalls = <<>>
        /\ remote = remote0
        /\ \A k \in 1..Len(cacheLog) : IsNone(cacheLog[k])
        /\ cache0.kind = "record" => (cacheFile = cache0 /\ cacheLog = <<>>)
        /\ cache0.kind # "record" =>
             (cacheFile = CacheRecord(loadTime, None) /\ cacheLog = <<None>>)

\* C5 witness: the fetch failed on its second page, after a first page had
\* been received, in a run that started without a cache file.
C5_Witness ==
    /\ pc = "fetch_failed"
    /\ Len(getCalls) = 2 /\ fetch_acc # <<>>
    /\ cache0 = NoCache

\* Nothing has changed since the table was printed.
SinceTable ==
    /\ cacheFile = presented.cache
    /\ dictFile = presented.dict
    /\ remote = presented.remote
    /\ cacheLog = presented.log
    /\ dictAppends = <<>>
    /\ updateCalls = <<>>

\* C6: when the user declines, the run aborts and the cache file, the
\* dictionary file and the server's entries are as they were when the
\* results were shown: no cache write, no append, no update_entries call.
C6_DeclineNoEffect ==
    answer = "no" => (pc = "aborted" /\ SinceTable)

\* C6 witness: a run that would have marked (no dry run, dictionary file
\* present) was declined.
C6_Witness ==
    /\ pc = "aborted" /\ answer = "no"
    /\ ~dryrun /\ dictFile.exists /\ results # <<>>

\* C7 as claimed: a confirmed dry run changes nothing, reports the ids that
\* would have been marked and ends in DONE, whatever the cache and the
\* dictionary file are.
C7_DryRunReports ==
    (dryrun /\ answer = "yes") =>
        /\ SinceTable
        /\ pc = "done"
        /\ reported = PyList(ResultIds)

\* The matched entries are 'read' in the list the cache file holds, which is
\* the whole searched list.
CacheHoldsMarked ==
    /\ cacheFile.kind = "record"
    /\ cacheFile.data.type = "list"
    /\ Len(cacheFile.data.items) = Len(searched.items)
    /\ \A j \in 1..Len(searched.items) :
         /\ cacheFile.data.items[j].id = searched.items[j].id
         /\ cacheFile.data.items[j].title = searched.items[j].title
         /\ j \in Range(results) => cacheFile.data.items[j].status = "read"

\* The else branch of `if dryrun` has been entered.
Marking == pc \in {"update", "done", "update_failed"} /\ ~dryrun

\* C8: once MARKING is reached, every matched entry is 'read' in the whole
\* list persisted in the cache, and update_entries is called once, with
\* status 'read' and the ids of the matched entries, one each, in the order
\* of the list.
C8_Marking ==
    Marking =>
        /\ CacheHoldsMarked
        /\ \A k \in 1..Len(results) : \A l \in 1..Len(results) :
             k < l => results[k] < results[l]
        /\ pc = "update" => updateCalls = <<>>
        /\ pc \in {"done", "update_failed"} =>
             updateCalls = << [entry_ids |-> ResultIds, status |-> "read"] >>

\* C8 witness: two of three entries matched and the marking went through.
C8_Witness ==
    /\ pc = "done" /\ ~dryrun
    /\ Len(results) = 2 /\ Len(searched.items) = 3
    /\ updateCalls # <<>>

\* The dictionary file has a line for the word, as the dictionary compares
\* lines: ignoring case and surrounding blanks.
DictHas(word) ==
    /\ dictFile.exists
    /\ \E l \in Range(SplitLines(dictFile.text)) :
         Lower(Strip(l)) = Lower(Strip(word))

\* C9: when update_entries is called, the cache file already holds the
\* matched entries as 'read' and the dictionary already has every AND and OR
\* keyword; when the call fails both stay so and the server is unchanged.
C9_LocalFirst ==
    /\ pc = "update" =>
         /\ updateCalls = <<>>
         /\ CacheHoldsMarked
         /\ \A w \in Range(keywords_and \o keywords_or) : DictHas(w)
    /\ pc = "update_failed" =>
         /\ CacheHoldsMarked
         /\ \A w \in Range(keywords_and \o keywords_or) : DictHas(w)
         /\ remote = presented.remote

\* C9 witness: update_entries failed after a marking that added a keyword
\* to the dictionary.
C9_Witness ==
    /\ pc = "update_failed"
    /\ dictAppends # <<>> /\ results # <<>>
    /\ \E j \in 1..Len(remote) : remote[j].id \in Range(ids)
                                  /\ remote[j].status = "unread"

\* C10 as claimed: in a run with the keywords of an earlier marking run, in
\* which the entries marked earlier are no longer unread in the list
\* searched, the marking appends no keyword that an earlier run has appended
\* and passes no already-read entry to update_entries.
C10_Idempotent ==
    (/\ Searched
     /\ <<keywords_and, keywords_or, keywords_not>> \in keywordsBefore
     /\ \A j \in 1..Len(searched.items) :
          searched.items[j].id \in markedBefore =>
              searched.items[j].status # "unread") =>
        /\ \A k \in 1..Len(dictAppends) : dictAppends[k] \notin appendedBefore
        /\ \A j \in 1..Len(searched.items) :
             searched.items[j].status = "read" =>
                 \A c \in 1..Len(updateCalls) :
                     searched.items[j].id \notin Range(updateCalls[c].entry_ids)

\* Some keyword of the invocation does not compile.
MalformedInput ==
    \E k \in Range(keywords_and \o keywords_or \o keywords_not) : IsMalformed(k)

\* C11 as claimed: a run with a malformed AND, OR or NOT pattern fails with
\* an input error before any get_entries call, any cache write and any
\* search: it never gets past the load otherwise than by that error.
C11_RejectedFirst ==
    (MalformedInput /\ Loaded) =>
        /\ pc = "pattern_error"
        /\ getCalls = <<>>
        /\ cacheLog = <<>>
        /\ ~Searched

\* ----------------------------------------------- claims on the dictionary
\* Some line of the text equals the word, ignoring case.
HasLine(text, word) ==
    \E i \in 1..Len(SplitLines(text)) : Lower(SplitLines(text)[i]) = Lower(word)

\* a is b with some elements left out.
RECURSIVE IsSubSeq(_, _)
IsSubSeq(a, b) ==
    IF a = <<>> THEN TRUE
    ELSE IF b = <<>> THEN FALSE
    ELSE IF Head(a) = Head(b) THEN IsSubSeq(Tail(a), Tail(b))
    ELSE IsSubSeq(a, Tail(b))

\* No two lines of the text are equal ignoring case.
NoDuplicateLine(text) ==
    \A i \in 1..Len(SplitLines(text)) : \A j \in 1..Len(SplitLines(text)) :
        i # j => Lower(SplitLines(text)[i]) # Lower(SplitLines(text)[j])

\* C12 as claimed: append(k) adds k as a new last line exactly when no line
\* of the file equals k ignoring case and otherwise leaves the file as it
\* is; after any appends the lines the file started with are still there in
\* their order, and no two lines are equal ignoring case.
C12_AppendOnlySet ==
    /\ d_last # None =>
         SplitLines(d_file) =
            IF HasLine(d_last.before, d_last.line)
            THEN SplitLines(d_last.before)
            ELSE Append(SplitLines(d_last.before), d_last.line)
    /\ d_pc # "off" =>
         /\ IsSubSeq(SplitLines(d_start), SplitLines(d_file))
         /\ NoDuplicateLine(d_file)

\* C13: a search that finds nothing reports 'no result' and the run ends
\* there: no prompt is shown and nothing is presented for confirmation, the
\* cache file, the dictionary file and the server are as the search loop
\* left them, nothing is written to the cache or appended to the
\* dictionary, and update_entries is not called.
C13_NoResult ==
    /\ (Searched /\ results = <<>> /\ pc # "pattern_error") => pc = "no_result"
    /\ pc = "no_result" =>
         /\ results = <<>>
         /\ answer = "none" /\ presented = None /\ reported = None
         /\ cacheFile = atSearch.cache /\ cacheLog = atSearch.log
         /\ dictFile = atSearch.dict /\ dictAppends = <<>>
         /\ remote = atSearch.remote /\ updateCalls = <<>>

\* C13 witness: a run over a freshly fetched list whose keyword matches no
\* title ended with 'no result'.
C13_Witness ==
    /\ pc = "no_result"
    /\ getCalls # <<>> /\ searched.items # <<>>
    /\ keywords_and # <<>>

\* ------------------------------------------- claims on the cache object
\* C14: after write(p) the object's payload is p and its cached_time is the
\* time stamp in the file, which lies between the start and the end of the
\* write; the file holds exactly p under that stamp, whatever it held
\* before; a read or a new SimpleCache right after the write yields the
\* same payload and the same cached_time and leaves the file as it is.
C14_RoundTrip ==
    /\ c_op.type = "write" =>
         /\ c_obj.payload = c_op.payload
         /\ c_file = CacheRecord(c_obj.cached_time, c_op.payload)
         /\ c_op.start <= c_obj.cached_time
         /\ c_obj.cached_time <= c_op.end
    /\ (c_op.type \in {"read", "new"} /\ c_op.after_write # None) =>
         /\ c_obj.payload = c_op.after_write.payload
         /\ c_obj.cached_time = c_op.after_write.stamp
         /\ c_file = c_op.before

\* C14 witness: a list was written over an older record, the clock having
\* advanced during the write, and a new object then read it back.
C14_Witness ==
    /\ c_op.type = "new" /\ c_op.after_write # None
    /\ c_op.after_write.payload.type = "list"
    /\ c_op.after_write.payload.items # <<>>
    /\ c_op.after_write.stamp > 0
    /\ c_obj.payload = c_op.after_write.payload

\* C15 as claimed: is_expired(reference_time) is TRUE exactly when a
\* lifetime is set, of whatever length, and cached_time < reference_time -
\* lifetime.
C15_ExpiredIff ==
    (c_op.type = "is_expired" /\ c_op.explicit) =>
        (c_op.result <=>
            /\ c_obj.lifetime # None
            /\ c_obj.cached_time < c_op.time - c_obj.lifetime.ticks)

\* C16: without a lifetime is_expired returns FALSE, whatever the
\* cached_time and the reference time, given or defaulted.
C16_NoLifetime ==
    (c_op.type = "is_expired" /\ c_obj.lifetime = None) => ~c_op.result

\* C16 witness: a cache without lifetime was asked about a reference time
\* long after its cached_time.
C16_Witness ==
    /\ c_op.type = "is_expired" /\ c_obj.lifetime = None
    /\ c_op.explicit /\ c_obj.cached_time + CACHE_LIFE < c_op.time
    /\ ~c_op.result

\* C17 as claimed: is_expired() without a reference time measures against
\* the time of the call: with a lifetime (of positive length) set, it
\* returns TRUE whenever cached_time < time of the call - lifetime.
C17_DefaultIsNow ==
    (/\ c_op.type = "is_expired" /\ ~c_op.explicit
     /\ c_obj.lifetime # None) =>
        ((/\ c_obj.lifetime.ticks > 0
          /\ c_obj.cached_time < c_op.at - c_obj.lifetime.ticks) => c_op.result)

\* C18: when the cache file is absent or corrupt the load has no failing
\* outcome: it leaves an empty record (payload None, stamped at the time of the read)
\* in the file, cli has no entries, and the run fetches.
C18_ReadRecovers ==
    (Loaded /\ cache0.kind # "record") =>
        /\ cacheLog # <<>> /\ cacheLog[1] = None
        /\ cacheFile.kind = "record"
        /\ Fetching
        /\ (pc = "fetch" /\ getCalls = <<>>) =>
             /\ cacheFile = CacheRecord(loadTime, None)
             /\ entries = None

\* C18 witness: a run without --force-fetch that found a corrupt cache file
\* is about to fetch, some time after the process started.
C18_Witness ==
    /\ pc = "fetch" /\ getCalls = <<>> /\ ~force_fetch
    /\ cache0 = CorruptCache
    /\ loadTime > importTime

\* ------------------------------------------------- claims on highlighting
Markers == {"[keyword_and]", "[/keyword_and]", "[keyword_or]", "[/keyword_or]"}

\* The position in the tokens of the character at 0-based offset idx of the
\* title; one past the last token for the offset behind the last character.
TokenOf(tokens, idx) ==
    IF \E k \in 1..Len(tokens) :
         /\ tokens[k] \notin Markers
         /\ Cardinality({l \in 1..k : tokens[l] \notin Markers}) = idx + 1
    THEN CHOOSE k \in 1..Len(tokens) :
         /\ tokens[k] \notin Markers
         /\ Cardinality({l \in 1..k : tokens[l] \notin Markers}) = idx + 1
    ELSE Len(tokens) + 1

\* The markers emitted at offset idx: those between the character before
\* that offset and the character at it (or the end of the title).
MarkersAtOffset(tokens, idx) ==
    LET from == IF idx = 0 THEN 0 ELSE TokenOf(tokens, idx - 1)
        to == TokenOf(tokens, idx)
    IN  {tokens[k] : k \in (from + 1)..(to - 1)}

\* The spans of the matches that are not None.
Spans(matches) ==
    {matches[i] : i \in {j \in 1..Len(matches) : ~IsNone(matches[j])}}

Count(tokens, marker) == Cardinality({k \in 1..Len(tokens) : tokens[k] = marker})

\* C19 as claimed: in the formatted title of a matched entry every AND span
\* and every OR span has its group's open marker at its start offset and
\* its group's close marker at its end offset, also at the end of the title
\* and also where other spans start or end; every opened span is closed;
\* markers stand only where an AND or OR span starts or ends, so NOT spans
\* produce none.
C19_Highlight ==
    m_pc = "decorated" =>
        /\ \A sp \in Spans(m_out.matches_and) :
             /\ "[keyword_and]" \in MarkersAtOffset(m_title, sp.start)
             /\ "[/keyword_and]" \in MarkersAtOffset(m_title, sp.end)
        /\ \A sp \in Spans(m_out.matches_or) :
             /\ "[keyword_or]" \in MarkersAtOffset(m_title, sp.start)
             /\ "[/keyword_or]" \in MarkersAtOffset(m_title, sp.end)
        /\ Count(m_title, "[keyword_and]") = Count(m_title, "[/keyword_and]")
        /\ Count(m_title, "[keyword_or]") = Count(m_title, "[/keyword_or]")
        /\ \A idx \in 0..Len(m_string) :
             MarkersAtOffset(m_title, idx) # {} =>
                \E sp \in Spans(m_out.matches_and) \cup Spans(m_out.matches_or) :
                    idx \in {sp.start, sp.end}

\* ------------------------------------------ claims on two invocations
\* Invocation p has marked its results in the cache.
HasMarked(p) == procs[p].written # None

\* An entry that invocation p has marked 'read' in the cache is 'unread' in
\* the cache file.
LostUpdate(p) ==
    /\ HasMarked(p)
    /\ cacheFile.kind = "record" /\ cacheFile.data.type = "list"
    /\ \E j \in 1..Len(cacheFile.data.items) :
         /\ cacheFile.data.items[j].id \in Range(procs[p].ids)
         /\ cacheFile.data.items[j].status = "unread"

\* C20: the cache is read and written back whole without locking: what an
\* invocation persists is the list it loaded earlier with its own marks
\* only, whatever the other has written meanwhile; so a mark of one
\* invocation can be lost, and it is lost exactly by a later write of the
\* other invocation, which stored its own list with the entry 'unread'.
C20_NoLocking ==
    \A p \in Procs :
        /\ HasMarked(p) =>
             procs[p].written.data =
                 PyList(MarkRead(procs[p].loaded.items, procs[p].results))
        /\ LostUpdate(p) =>
             /\ lastWriter \in Procs \ {p}
             /\ cacheFile.data = procs[lastWriter].entries

\* C20 witness: both invocations are done, each has marked and updated the
\* server, and an entry that one of them marked 'read' is 'unread' in the
\* cache file.
C20_Witness ==
    /\ \A p \in Procs : procs[p].pc = "done"
    /\ \E p \in Procs : LostUpdate(p)

\* ------------------------------------------------- claims on freshness
\* The invocation has searched the list it loaded from the cache, without
\* calling the server.
CacheServed ==
    /\ searched # None
    /\ getCalls = <<>>
    /\ ~force_fetch

\* C21: with the lifetime CACHE_LIFE set, an invocation that searches the
\* cached list without fetching searches a list that was fetched from the
\* server at most CACHE_LIFE before the invocation started, also when
\* earlier invocations have marked entries in the cache in between.
C21_Fresh ==
    CacheServed => importTime - fetchedAt <= CACHE_LIFE

\* ------------------------------------ claims on fetching from any source
CeilDiv(n, d) == (n + d - 1) \div d
Max(a, b) == IF a >= b THEN a ELSE b

\* fetch_entries has returned from a source that held the fixed list
\* f_source: it made max(1, ceil(N / batch_size)) calls and returns the
\* list, every entry once and in source order.
FetchComplete ==
    (f_pc = "returned" /\ Steady) =>
        /\ Len(f_calls) = Max(1, CeilDiv(Len(f_source), f_batch))
        /\ f_entries = f_source

\* C22: fetch_entries terminates for every behaviour of a source that
\* answers each call without error; and from a source holding a fixed list
\* of N entries, with any batch size >= 1, it makes exactly
\* max(1, ceil(N / batch_size)) calls and returns all N entries, each once,
\* in source order.
C22_FetchTerminates ==
    /\ <>(f_pc = "returned")
    /\ []FetchComplete

\* --------------------------------------------- claims on the frame
\* C23: the payload persisted by MARKING has the entries of the searched
\* payload, in the same order; an entry that is not matched is unchanged,
\* its status included; a matched entry was 'unread' and differs only in
\* its status, now 'read'; no entry is added, removed or reordered.
C23_Frame ==
    Marking =>
        /\ cacheFile.kind = "record"
        /\ cacheFile.data.type = "list"
        /\ cacheLog # <<>> /\ cacheLog[Len(cacheLog)] = cacheFile.data
        /\ Len(cacheFile.data.items) = Len(searched.items)
        /\ \A j \in 1..Len(searched.items) :
             IF j \in Range(results)
             THEN /\ searched.items[j].status = "unread"
                  /\ cacheFile.data.items[j] =
                       [searched.items[j] EXCEPT !.status = "read"]
             ELSE cacheFile.data.items[j] = searched.items[j]

\* C23 witness: MARKING has written the cache, and the searched list held a
\* matched entry, an unread entry that is not matched, and an entry that was
\* no longer unread.
C23_Witness ==
    /\ pc = "update"
    /\ results # <<>>
    /\ \E j \in 1..Len(searched.items) :
         j \notin Range(results) /\ searched.items[j].status = "unread"
    /\ \E j \in 1..Len(searched.items) :
         searched.items[j].status # "unread"

\* ------------------------------------------------ claims on recovery
\* The constructor or read() has returned.
Returned ==
    /\ c_stack = <<>>
    /\ c_op.type = "call" /\ c_op.outcome = "returned"

\* The object holds what the file holds.
InSync ==
    IF c_file.kind = "record" /\ c_obj # None
    THEN /\ c_obj.payload = c_file.data
         /\ c_obj.cached_time = DateTime(c_file.cached_time)
    ELSE FALSE

\* What a call that has returned leaves: nothing written when the file held
\* a record, one write of the empty record otherwise.
Recovered ==
    IF Returned
    THEN /\ InSync
         /\ IF c_op.before.kind = "record"
            THEN c_dumps = 0 /\ c_file = c_op.before
            ELSE c_dumps = 1 /\ c_obj.payload = None
    ELSE TRUE

\* C24: constructing a SimpleCache or calling read() on an absent or
\* corrupt file makes a bounded number of recovery writes: one write(None),
\* after which read() does not call write() again; the frames never nest
\* deeper than read, write, read; the call comes to an end, and when it
\* returns the object's payload and cached_time are those of the record in
\* the file, the empty record if the file was absent or corrupt.
C24_Recovery ==
    /\ [](c_dumps <= 1 /\ Len(c_stack) < MaxDepth)
    /\ []Recovered
    /\ (c_stack # <<>>) ~> (c_stack = <<>>)

\* C24 witness: read() on an object whose file had been damaged has
\* returned after one recovery write.
C24_Witness ==
    /\ Returned
    /\ c_op.kind = "read"
    /\ c_op.before.kind = "corrupt"
    /\ c_dumps = 1
    /\ InSync

\* ------------------------------------------ claims on the remote calls
\* No two entries of the list have the same id.
UniqueIds(list) ==
    \A i \in 1..Len(list) : \A j \in 1..Len(list) :
        list[i].id = list[j].id => i = j

\* What holds of the update_entries calls an invocation has made.
UpdateDiscipline ==
    /\ Len(updateCalls) <= 1
    /\ updateCalls # <<>> =>
         /\ searched # None
         /\ results # <<>>
         /\ answer = "yes"
         /\ ~dryrun
         /\ updateCalls[1].entry_ids # <<>>
         /\ UniqueIds(searched.items) =>
              \A k \in 1..Len(updateCalls[1].entry_ids) :
              \A l \in 1..Len(updateCalls[1].entry_ids) :
                  updateCalls[1].entry_ids[k] = updateCalls[1].entry_ids[l]
                      => k = l

\* C25: in every invocation update_entries is called at most once, and only
\* after a search with at least one match, the answer yes and with dry-run
\* off; the id list passed is not empty and, the ids of the list being
\* unique, holds no id twice; once the search loop has run, the invocation
\* makes no get_entries call.
C25_RemoteCalls ==
    /\ []UpdateDiscipline
    /\ [][(searched # None /\ searched' # None) => getCalls' = getCalls]_vars

\* C25 witness: an invocation that fetched in two calls, searched, and has
\* made its update_entries call with two ids.
C25_Witness ==
    /\ pc = "done"
    /\ Len(getCalls) = 2
    /\ Len(updateCalls) = 1
    /\ Len(updateCalls[1].entry_ids) = 2

====
